---------------------------- MODULE Spec2Model ----------------------------
(***************************************************************************)
(* Model of the SecureSearch server (express app with the /api/search and  *)
(* /api/sheets endpoints) and of the search box of the React client.       *)
(* Text is modelled as a sequence of one-character strings, so that        *)
(* trimming, SQL LIKE matching and escaped-newline replacement are         *)
(* computed character by character.                                        *)
(***************************************************************************)
EXTENDS Integers, Sequences, FiniteSets, TLC

VARIABLES
  items,        \* rows of table items, in rowid order
  sPc,          \* /api/search: "idle" (no request) or "responded"
  sReq,         \* /api/search: the request being answered, [hasQ, q]
  sStatus,      \* /api/search: HTTP status of the response (0: none yet)
  sBody,        \* /api/search: JSON body of the response
  sStoreCalls,  \* /api/search: statements run against db for this request
  sSent,        \* /api/search: responses sent for this request
  sLog,         \* /api/search: what console.error logged for this request
  envEmail,     \* process.env.GOOGLE_SERVICE_ACCOUNT_EMAIL, [set, text]
  envKey,       \* process.env.GOOGLE_PRIVATE_KEY, [set, text]
  pPc,          \* /api/sheets: "idle", "awaiting" (at the await),
                \*   "responded", or "threw" (the handler's promise rejected)
  pParams,      \* /api/sheets: req.params, [spreadsheetId, range]
  pAuth,        \* /api/sheets: the JWT client built for this request
  pCalls,       \* /api/sheets: calls of sheets.spreadsheets.values.get made
  pError,       \* /api/sheets: the error caught by the handler
  pStatus,      \* /api/sheets: HTTP status of the response (0: none yet)
  pBody,        \* /api/sheets: JSON body of the response
  query,        \* App: text of the search input
  suggestions,  \* App: rows shown in the dropdown
  isLoading,    \* App: loading flag
  showSuggestions, \* App: visibility flag of the dropdown
  selectedItem, \* App: [set, item], the chosen row or null
  timers,       \* pending setTimeout calls, each [id, q, elapsed]
  timeoutId,    \* timeoutId held by the cleanup of the last effect run
  inFlight,     \* URLs of the fetch calls awaiting their response,
                \*   oldest first
  burstLen,     \* input changes in a row, each less than Delay after the
                \*   one before (0: none since mount or a selection)
  burstSent,    \* URLs fetched since the first change of that run
  lastEvent,    \* the fetch settled by the last step, [kind, url, data],
                \*   kind "none" when the last step settled none
  dismissed     \* the dropdown was hidden by a click outside or by a
                \*   selection, and the user has neither focused the input
                \*   nor changed its text since

searchVars == <<sPc, sReq, sStatus, sBody, sStoreCalls, sSent, sLog>>
proxyVars == <<pPc, pParams, pAuth, pCalls, pError, pStatus, pBody>>
envVars == <<envEmail, envKey>>
appVars == <<query, suggestions, isLoading, showSuggestions, selectedItem>>
timerVars == <<timers, timeoutId>>
netVars == <<inFlight>>
burstVars == <<burstLen, burstSent>>
histVars == <<lastEvent, dismissed>>
clientVars == <<appVars, timerVars, netVars, burstVars, histVars>>
serverVars == <<items, searchVars, envVars, proxyVars>>
vars == <<serverVars, clientVars>>

-----------------------------------------------------------------------------
(* Bounds of the model *)

\* longest query text (in characters) a request to /api/search carries
MaxQueryLen == 3

\* most fetch calls awaiting a response at one time
MaxInFlight == 2

\* time that passes in one step of the clock
TimeStep == 150

\* longest run of input changes that is counted
MaxBurst == 4

\* characters the enumerated query texts are built from
QueryAlphabet == {"o", "n", " ", "%", "_"}

-----------------------------------------------------------------------------
(* Text helpers *)

UpperChars == <<"A","B","C","D","E","F","G","H","I","J","K","L","M",
                "N","O","P","Q","R","S","T","U","V","W","X","Y","Z">>
LowerChars == <<"a","b","c","d","e","f","g","h","i","j","k","l","m",
                "n","o","p","q","r","s","t","u","v","w","x","y","z">>

\* ASCII case folding, as SQLite's LIKE applies it
LowerOf ==
  [c \in {UpperChars[i] : i \in 1..26} |->
     LowerChars[CHOOSE i \in 1..26 : UpperChars[i] = c]]

Lower(c) == IF c \in DOMAIN LowerOf THEN LowerOf[c] ELSE c

\* all texts over alphabet A of length at most n
RECURSIVE TextsUpTo(_, _)
TextsUpTo(A, n) ==
  IF n = 0 THEN {<<>>}
  ELSE LET shorter == TextsUpTo(A, n - 1)
       IN  shorter \cup {Append(t, c) : t \in shorter, c \in A}

\* characters String.prototype.trim removes
Whitespace == {" "}

RECURSIVE TrimStart(_)
TrimStart(s) ==
  IF s # <<>> /\ Head(s) \in Whitespace THEN TrimStart(Tail(s)) ELSE s

RECURSIVE TrimEnd(_)
TrimEnd(s) ==
  IF s # <<>> /\ s[Len(s)] \in Whitespace
  THEN TrimEnd(SubSeq(s, 1, Len(s) - 1))
  ELSE s

\* String.prototype.trim
Trim(s) == TrimEnd(TrimStart(s))

\* s contains t as a contiguous run of characters, compared exactly
Contains(s, t) ==
  \E i \in 0..(Len(s) - Len(t)) : SubSeq(s, i + 1, i + Len(t)) = t

\* s contains t as a contiguous run of characters, ignoring ASCII case
ContainsNoCase(s, t) ==
  \E i \in 0..(Len(s) - Len(t)) :
     \A k \in 1..Len(t) : Lower(s[i + k]) = Lower(t[k])

-----------------------------------------------------------------------------
(* The row store *)

seedData ==
  <<
     <<<<"A","p","p","l","e"," ","i","P","h","o","n","e"," ","1","5">>,
       <<"L","a","t","e","s","t"," ","s","m","a","r","t","p","h","o","n","e"," ","f","r","o","m"," ","A","p","p","l","e">>,
       "Electronics">>,
     <<<<"S","a","m","s","u","n","g"," ","G","a","l","a","x","y"," ","S","2","3">>,
       <<"H","i","g","h","-","e","n","d"," ","A","n","d","r","o","i","d"," ","s","m","a","r","t","p","h","o","n","e">>,
       "Electronics">>,
     <<<<"S","o","n","y"," ","W","H","-","1","0","0","0","X","M","5">>,
       <<"N","o","i","s","e","-","c","a","n","c","e","l","i","n","g"," ","h","e","a","d","p","h","o","n","e","s">>,
       "Audio">>,
     <<<<"M","a","c","B","o","o","k"," ","P","r","o"," ","1","4">>,
       <<"P","o","w","e","r","f","u","l"," ","l","a","p","t","o","p"," ","f","o","r"," ","p","r","o","f","e","s","s","i","o","n","a","l","s">>,
       "Computing">>,
     <<<<"D","e","l","l"," ","X","P","S"," ","1","3">>,
       <<"C","o","m","p","a","c","t"," ","a","n","d"," ","p","o","w","e","r","f","u","l"," ","u","l","t","r","a","b","o","o","k">>,
       "Computing">>,
     <<<<"N","i","n","t","e","n","d","o"," ","S","w","i","t","c","h">>,
       <<"H","y","b","r","i","d"," ","g","a","m","i","n","g"," ","c","o","n","s","o","l","e">>,
       "Gaming">>,
     <<<<"P","l","a","y","S","t","a","t","i","o","n"," ","5">>,
       <<"N","e","x","t","-","g","e","n"," ","g","a","m","i","n","g"," ","c","o","n","s","o","l","e">>,
       "Gaming">>,
     <<<<"L","o","g","i","t","e","c","h"," ","M","X"," ","M","a","s","t","e","r"," ","3","S">>,
       <<"E","r","g","o","n","o","m","i","c"," ","p","r","o","d","u","c","t","i","v","i","t","y"," ","m","o","u","s","e">>,
       "Accessories">>,
     <<<<"K","e","y","c","h","r","o","n"," ","K","2">>,
       <<"M","e","c","h","a","n","i","c","a","l"," ","w","i","r","e","l","e","s","s"," ","k","e","y","b","o","a","r","d">>,
       "Accessories">>,
     <<<<"K","i","n","d","l","e"," ","P","a","p","e","r","w","h","i","t","e">>,
       <<"E","-","r","e","a","d","e","r"," ","f","o","r"," ","b","o","o","k"," ","l","o","v","e","r","s">>,
       "Electronics">>
  >>

\* a row of table items; description may be NULL (descIsNull)
Row(id, name, description, descIsNull, category) ==
  [id |-> id, name |-> name, description |-> description,
   descIsNull |-> descIsNull, category |-> category]

\* the table after seedData.forEach(insert.run): AUTOINCREMENT ids 1..10
SeededItems ==
  [i \in 1..Len(seedData) |->
     Row(i, seedData[i][1], seedData[i][2], FALSE, seedData[i][3])]

\* a table of two rows with short names, one without description
SmallTable ==
  << Row(3, <<"M","a","c">>, <<"a"," ","M","a","c">>, FALSE, "T"),
     Row(5, <<"M","a","x">>, <<>>, TRUE, "T") >>

\* contents app.db may already have when the server starts; the empty table
\* is the fresh database
ExistingTables ==
  { <<>>,
    << Row(1, <<"o","n">>, <<"A","n"," ","o","n">>, FALSE, "T"),
       Row(2, <<"O","N","%">>, <<>>, TRUE, "T"),
       Row(3, <<"n","o","n">>, <<"_","o","n">>, FALSE, "T"),
       Row(4, <<"A","-","-">>, <<"o","n","'">>, FALSE, "T"),
       Row(6, <<"o","n">>, <<"A","n"," ","o","n">>, FALSE, "T"),
       Row(7, <<"A"," "," ","n">>, <<"o","n","o">>, FALSE, "T"),
       Row(9, <<"%","%">>, <<"n","O","n">>, FALSE, "T") >>,
    SmallTable }

\* startServer: CREATE TABLE IF NOT EXISTS, then seed only if COUNT(*) = 0
StartServer(existing) ==
  IF Len(existing) = 0 THEN SeededItems ELSE existing

-----------------------------------------------------------------------------
(* GET /api/search *)

\* LIMIT 5
Limit == 5

\* query.length < 2
MinQueryLen == 2

\* SQLite's LIKE: % matches any run of characters, _ any one character,
\* every other character matches itself ignoring ASCII case
RECURSIVE LikeFrom(_, _, _, _)
LikeFrom(p, i, s, j) ==
  IF i > Len(p) THEN j > Len(s)
  ELSE IF p[i] = "%"
       THEN LikeFrom(p, i + 1, s, j) \/ (j <= Len(s) /\ LikeFrom(p, i, s, j + 1))
       ELSE /\ j <= Len(s)
            /\ (p[i] = "_" \/ Lower(p[i]) = Lower(s[j]))
            /\ LikeFrom(p, i + 1, s, j + 1)

\* s LIKE p
LikeMatch(p, s) == LikeFrom(p, 1, s, 1)

\* LikePattern without the leading wildcard: a prefix match
LikePatternPrefixOnly(q) == q \o <<"%">>

\* the bound parameter `%${query}%`
LikePattern(q) == <<"%">> \o q \o <<"%">>

\* WHERE name LIKE ? OR description LIKE ?   (NULL LIKE ? is not true)
RowMatches(row, q) ==
  \/ LikeMatch(LikePattern(q), row.name)
  \/ (~row.descIsNull /\ LikeMatch(LikePattern(q), row.description))

\* positions in the table of the rows the WHERE clause selects
MatchingRows(table, q) ==
  {i \in 1..Len(table) : RowMatches(table[i], q)}

RECURSIVE InRowidOrder(_, _)
InRowidOrder(table, S) ==
  IF S = {} THEN <<>>
  ELSE LET i == CHOOSE j \in S : \A k \in S : j <= k
       IN  <<table[i]>> \o InRowidOrder(table, S \ {i})

Min(a, b) == IF a <= b THEN a ELSE b

\* SearchResults with the LIMIT clause left out
SearchResultsNoLimit(table, q) ==
  {InRowidOrder(table, MatchingRows(table, q))}

\* stmt.all(...): the statement has no ORDER BY, so which rows survive
\* LIMIT 5 is the engine's choice; every choice of that many matching rows
\* is a possible result
SearchResults(table, q) ==
  LET m == MatchingRows(table, q)
      n == Min(Limit, Cardinality(m))
  IN  {InRowidOrder(table, S) : S \in {T \in SUBSET m : Cardinality(T) = n}}

\* JSON bodies
RowsBody(list) == [kind |-> "rows", rows |-> list, error |-> ""]
ErrorBody(msg) == [kind |-> "error", rows |-> <<>>, error |-> msg]
NoBody == [kind |-> "none", rows |-> <<>>, error |-> ""]

\* req.query.q: absent, or a text
NoQ == [q |-> <<>>, hasQ |-> FALSE]
Q(t) == [q |-> t, hasQ |-> TRUE]
\* query texts tried besides the enumerated ones: the exact names of the
\* seeded rows, upper-case text and text with quote and comment characters
ExtraQueries ==
  {seedData[i][1] : i \in 1..Len(seedData)}
    \cup { <<"O","N">>, <<" ","A">>, <<"'","-","-">>, <<"n","'">>, <<"-","-">>,
           <<"x","y","z">> }

SearchRequests ==
  {NoQ} \cup {Q(t) : t \in TextsUpTo(QueryAlphabet, MaxQueryLen) \cup ExtraQueries}

\* !query || query.length < 2
TooShort(req) == ~req.hasQ \/ Len(req.q) = 0 \/ Len(req.q) < MinQueryLen

\* what db.prepare or stmt.all can throw: the message of the driver's error;
\* NoFault when the statement completes
NoFault == ""
StoreFaults ==
  {"SQLITE_ERROR: no such table: items", "SQLITE_BUSY: database is locked"}

\* the catch block's response body, echoing the caught error's message
SearchFaultBodyEchoesDetail(fault) == ErrorBody(fault)

\* the catch block's response body: the same text for every fault
SearchFaultBody(fault) == ErrorBody("Internal server error")

\* app.get("/api/search", ...): the whole handler.  storeFault: the error
\* db.prepare or stmt.all throws, or NoFault.
SearchHandler(req, storeFault) ==
  /\ sPc = "idle"
  /\ sPc' = "responded"
  /\ sReq' = req
  /\ sSent' = sSent + 1
  /\ IF TooShort(req)
     THEN /\ sStatus' = 200
          /\ sBody' = RowsBody(<<>>)
          /\ sStoreCalls' = 0
          /\ sLog' = NoFault
     ELSE /\ sStoreCalls' = 1
          /\ IF storeFault # NoFault
             THEN /\ sLog' = storeFault
                  /\ sStatus' = 500
                  /\ sBody' = SearchFaultBody(storeFault)
             ELSE /\ sLog' = NoFault
                  /\ sStatus' = 200
                  /\ \E rows \in SearchResults(items, req.q) :
                        sBody' = RowsBody(rows)
  /\ UNCHANGED <<items, envVars, proxyVars, clientVars>>

\* the response is sent; the server waits for the next request
SearchDone ==
  /\ sPc = "responded"
  /\ sPc' = "idle"
  /\ sReq' = NoQ
  /\ sStatus' = 0
  /\ sBody' = NoBody
  /\ sStoreCalls' = 0
  /\ sSent' = 0
  /\ sLog' = NoFault
  /\ UNCHANGED <<items, envVars, proxyVars, clientVars>>

InitSearch ==
  /\ sPc = "idle"
  /\ sReq = NoQ
  /\ sStatus = 0
  /\ sBody = NoBody
  /\ sStoreCalls = 0
  /\ sSent = 0
  /\ sLog = NoFault

-----------------------------------------------------------------------------
(* GET /api/sheets/:spreadsheetId/:range *)

\* an environment variable: unset (undefined) or set to a text
Unset == [set |-> FALSE, text |-> <<>>]
SetTo(t) == [set |-> TRUE, text |-> t]

\* .replace(/\\n/g, "\n"): every backslash followed by n becomes one line
\* feed character, written "LF" here
RECURSIVE ReplaceEscapedNewlines(_)
ReplaceEscapedNewlines(s) ==
  IF s = <<>> THEN <<>>
  ELSE IF Len(s) >= 2 /\ s[1] = "\\" /\ s[2] = "n"
       THEN <<"LF">> \o ReplaceEscapedNewlines(SubSeq(s, 3, Len(s)))
       ELSE <<Head(s)>> \o ReplaceEscapedNewlines(Tail(s))

\* process.env.GOOGLE_PRIVATE_KEY?.replace(...)
PrivateKey(key) ==
  IF key.set THEN SetTo(ReplaceEscapedNewlines(key.text)) ELSE Unset

\* !v for a value that is undefined or a string
Falsy(v) == ~v.set \/ v.text = <<>>

\* CredentialsMissing with && in place of ||
CredentialsBothMissing(email, key) == Falsy(email) /\ Falsy(key)

\* !clientEmail || !privateKey
CredentialsMissing(email, key) == Falsy(email) \/ Falsy(key)

\* the code field of a caught error: absent, a number or a text
NoCode == [type |-> "none", num |-> 0, txt |-> ""]
IntCode(n) == [type |-> "int", num |-> n, txt |-> ""]
TextCode(s) == [type |-> "text", num |-> 0, txt |-> s]

\* error.code || 500: undefined, 0 and "" are falsy
StatusArg(code) ==
  IF code.type = "none" \/ (code.type = "int" /\ code.num = 0)
       \/ (code.type = "text" /\ code.txt = "")
  THEN IntCode(500)
  ELSE code

\* a status the HTTP layer accepts; with any other value
\* res.status(...).json(...) throws instead of sending
StatusAccepted(code) ==
  code.type = "int" /\ code.num >= 100 /\ code.num <= 999

NoError == [code |-> NoCode, thrown |-> FALSE, message |-> ""]
Error(code, message) == [code |-> code, thrown |-> TRUE, message |-> message]

\* JSON bodies of the proxy
ProxyNoBody ==
  [kind |-> "none", error |-> "", message |-> "", details |-> "", data |-> ""]
ConfigErrorBody ==
  [kind |-> "error",
   error |-> "Google Service Account credentials not configured on server.",
   message |-> "",
   details |-> "Please ensure GOOGLE_SERVICE_ACCOUNT_EMAIL and GOOGLE_PRIVATE_KEY are set.",
   data |-> ""]
UpstreamErrorBody(message) ==
  [kind |-> "error", error |-> "Failed to fetch data from Google Sheets.",
   message |-> message, details |-> "", data |-> ""]
DataBody(data) ==
  [kind |-> "data", error |-> "", message |-> "", details |-> "", data |-> data]

NoParams == [spreadsheetId |-> "", range |-> ""]
NoAuth == [key |-> <<>>, email |-> <<>>, scopes |-> ""]

\* values of the two environment variables the server may be started with
EnvEmails == {Unset, SetTo(<<>>), SetTo(<<"s","@","x">>)}
EnvKeys ==
  {Unset, SetTo(<<>>), SetTo(<<"k","\\","n","k">>), SetTo(<<"\\","n">>)}

\* path parameters, response payloads and errors of the upstream call
SpreadsheetIds == {"sheet1", "sheet2"}
Ranges == {"A1:B2", "Nowhere!A1"}
UpstreamPayloads == {"values:[[1,2]]", "values:[]"}
ErrorCodes ==
  {NoCode, IntCode(0), IntCode(99), IntCode(400), IntCode(404),
   IntCode(503), IntCode(1000), TextCode(""), TextCode("ECONNRESET")}
ErrorMessages == {"Range not found", "socket hang up"}

\* the handler up to its await: credential check, JWT client, and the call
\* of sheets.spreadsheets.values.get
ProxyHandler(spreadsheetId, range) ==
  /\ pPc = "idle"
  /\ pParams' = [spreadsheetId |-> spreadsheetId, range |-> range]
  /\ LET clientEmail == envEmail
          privateKey == PrivateKey(envKey)
     IN  IF CredentialsMissing(clientEmail, privateKey)
         THEN /\ pStatus' = 500
              /\ pBody' = ConfigErrorBody
              /\ pPc' = "responded"
              /\ UNCHANGED <<pAuth, pCalls>>
         ELSE /\ pAuth' = [key |-> privateKey.text, email |-> clientEmail.text,
                           scopes |-> "spreadsheets.readonly"]
              /\ pCalls' = pCalls + 1
              /\ pPc' = "awaiting"
              /\ UNCHANGED <<pStatus, pBody>>
  /\ UNCHANGED <<pError, items, searchVars, envVars, clientVars>>

\* the awaited call resolves: res.json(response.data)
UpstreamResolves(data) ==
  /\ pPc = "awaiting"
  /\ pStatus' = 200
  /\ pBody' = DataBody(data)
  /\ pPc' = "responded"
  /\ UNCHANGED <<pParams, pAuth, pCalls, pError, items, searchVars, envVars,
                 clientVars>>

\* the JWT client or the awaited call fails with error: the catch block
UpstreamRejects(error) ==
  /\ pPc = "awaiting"
  /\ pError' = error
  /\ IF StatusAccepted(StatusArg(error.code))
     THEN /\ pStatus' = StatusArg(error.code).num
          /\ pBody' = UpstreamErrorBody(error.message)
          /\ pPc' = "responded"
     ELSE /\ pPc' = "threw"
          /\ UNCHANGED <<pStatus, pBody>>
  /\ UNCHANGED <<pParams, pAuth, pCalls, items, searchVars, envVars, clientVars>>

\* the request is over; the server waits for the next one
ProxyDone ==
  /\ pPc \in {"responded", "threw"}
  /\ pPc' = "idle"
  /\ pParams' = NoParams
  /\ pAuth' = NoAuth
  /\ pCalls' = 0
  /\ pError' = NoError
  /\ pStatus' = 0
  /\ pBody' = ProxyNoBody
  /\ UNCHANGED <<items, searchVars, envVars, clientVars>>

InitProxy ==
  /\ pPc = "idle"
  /\ pParams = NoParams
  /\ pAuth = NoAuth
  /\ pCalls = 0
  /\ pError = NoError
  /\ pStatus = 0
  /\ pBody = ProxyNoBody

-----------------------------------------------------------------------------
(* App: the search box of the client *)

\* setTimeout(fetchSuggestions, 300)
Delay == 300

\* query.trim().length < 2
MinInputLen == 2

\* characters encodeURIComponent escapes, with their two hex digits
PercentCode ==
  [c \in {" ", "%", "&", "+", "/", "?", "=", "#"} |->
     CASE c = " " -> <<"2","0">>
       [] c = "%" -> <<"2","5">>
       [] c = "&" -> <<"2","6">>
       [] c = "+" -> <<"2","B">>
       [] c = "/" -> <<"2","F">>
       [] c = "?" -> <<"3","F">>
       [] c = "=" -> <<"3","D">>
       [] c = "#" -> <<"2","3">>]

RECURSIVE EncodeURIComponent(_)
EncodeURIComponent(s) ==
  IF s = <<>> THEN <<>>
  ELSE (IF Head(s) \in DOMAIN PercentCode
        THEN <<"%">> \o PercentCode[Head(s)]
        ELSE <<Head(s)>>) \o EncodeURIComponent(Tail(s))

\* the server's decoding of the q parameter: %XX back to its character
RECURSIVE DecodeQueryParam(_)
DecodeQueryParam(u) ==
  IF u = <<>> THEN <<>>
  ELSE IF Head(u) = "%" /\ Len(u) >= 3
            /\ \E c \in DOMAIN PercentCode : PercentCode[c] = SubSeq(u, 2, 3)
       THEN <<CHOOSE c \in DOMAIN PercentCode : PercentCode[c] = SubSeq(u, 2, 3)>>
              \o DecodeQueryParam(SubSeq(u, 4, Len(u)))
       ELSE <<Head(u)>> \o DecodeQueryParam(Tail(u))

\* texts the user types into the input
TypedTexts == {<<>>, <<" ","M">>, <<"M","a">>}

NoItem == [set |-> FALSE, item |-> Row(0, <<>>, <<>>, TRUE, "")]
Item(row) == [set |-> TRUE, item |-> row]

\* the settling of a fetch: "ok" (response.ok), "notok" (any other
\* status) or "error" (the fetch rejected)
Event(kind, url, data) == [kind |-> kind, data |-> data, url |-> url]
NoEvent == Event("none", <<>>, <<>>)

\* seq without its element at position i
RemoveAt(seq, i) == SubSeq(seq, 1, i - 1) \o SubSeq(seq, i + 1, Len(seq))

\* smallest identifier not used by the records in S
FreeId(S) == CHOOSE n \in 1..(Cardinality(S) + 1) : \A r \in S : r.id # n

\* a throttle in place of the debounce: while a timer is pending a change
\* schedules nothing and the pending timer keeps the text it closed over
EffectOnQueryThrottle(q) ==
  IF \E t \in timers : t.id = timeoutId
  THEN UNCHANGED <<timers, timeoutId>>
  ELSE /\ timers' = timers \cup {[id |-> FreeId(timers), q |-> q, elapsed |-> 0]}
       /\ timeoutId' = FreeId(timers)

\* the effect without its cleanup: the earlier timer is left pending when
\* the next one is scheduled
EffectOnQueryNoCleanup(q) ==
  /\ timers' = timers \cup {[id |-> FreeId(timers), q |-> q, elapsed |-> 0]}
  /\ timeoutId' = FreeId(timers)

\* the effect on [query] runs again for the new text q: the cleanup of the
\* previous run calls clearTimeout(timeoutId), then setTimeout schedules
\* fetchSuggestions, which closes over q
EffectOnQuery(q) ==
  LET kept == {t \in timers : t.id # timeoutId}
  IN  /\ timers' = kept \cup {[id |-> FreeId(kept), q |-> q, elapsed |-> 0]}
      /\ timeoutId' = FreeId(kept)

\* the short-input test on the untrimmed text
InputTooShortUntrimmed(q) == Len(q) < MinInputLen

\* query.trim().length < 2
InputTooShort(q) == Len(Trim(q)) < MinInputLen

\* the change follows the previous one by less than Delay: its timer is
\* still pending and not yet due
WithinQuietPeriod ==
  burstLen >= 1 /\ \E t \in timers : t.id = timeoutId /\ t.elapsed < Delay

\* onChange: setQuery(e.target.value)
Change(v) ==
  /\ v # query
  /\ query' = v
  /\ EffectOnQuery(v)
  /\ IF WithinQuietPeriod
     THEN /\ burstLen' = IF burstLen < MaxBurst THEN burstLen + 1 ELSE burstLen
          /\ UNCHANGED burstSent
     ELSE /\ burstLen' = 1
          /\ burstSent' = <<>>
  /\ lastEvent' = NoEvent
  /\ dismissed' = FALSE
  /\ UNCHANGED <<suggestions, isLoading, showSuggestions, selectedItem,
                 netVars, serverVars>>

\* onFocus: query.length >= 2 && setShowSuggestions(true)
Focus ==
  /\ IF Len(query) >= 2
     THEN showSuggestions' = TRUE
     ELSE UNCHANGED showSuggestions
  /\ lastEvent' = NoEvent
  /\ dismissed' = FALSE
  /\ UNCHANGED <<query, suggestions, isLoading, selectedItem, timerVars,
                 netVars, burstVars, serverVars>>

\* handleClickOutside: a mousedown outside searchRef
ClickOutside ==
  /\ showSuggestions' = FALSE
  /\ lastEvent' = NoEvent
  /\ dismissed' = (dismissed \/ showSuggestions)
  /\ UNCHANGED <<query, suggestions, isLoading, selectedItem, timerVars,
                 netVars, burstVars, serverVars>>

\* handleSelectSuggestion(item), from a button of the open dropdown
SelectSuggestion(item) ==
  /\ showSuggestions
  /\ \E i \in 1..Len(suggestions) : suggestions[i] = item
  /\ selectedItem' = Item(item)
  /\ query' = item.name
  /\ showSuggestions' = FALSE
  /\ IF item.name # query
     THEN EffectOnQuery(item.name)
     ELSE UNCHANGED timerVars
  /\ burstLen' = 0
  /\ burstSent' = <<>>
  /\ lastEvent' = NoEvent
  /\ dismissed' = TRUE
  /\ UNCHANGED <<suggestions, isLoading, netVars, serverVars>>

\* time passes while no pending timer is due
Tick ==
  /\ timers # {}
  /\ \A t \in timers : t.elapsed < Delay
  /\ timers' = {[t EXCEPT !.elapsed = t.elapsed + TimeStep] : t \in timers}
  /\ lastEvent' = NoEvent
  /\ UNCHANGED <<timeoutId, appVars, netVars, burstVars, dismissed,
                 serverVars>>

\* fetchSuggestions opening the list as soon as it sends its request
TimerFiresOpensList(t) ==
  /\ t \in timers
  /\ t.elapsed >= Delay
  /\ timers' = timers \ {t}
  /\ IF InputTooShort(t.q)
     THEN /\ suggestions' = <<>>
          /\ UNCHANGED <<isLoading, showSuggestions, netVars, burstSent>>
     ELSE /\ Len(inFlight) < MaxInFlight
          /\ isLoading' = TRUE
          /\ showSuggestions' = TRUE
          /\ inFlight' = Append(inFlight, EncodeURIComponent(t.q))
          /\ burstSent' = IF Len(burstSent) < 2
                          THEN Append(burstSent, EncodeURIComponent(t.q))
                          ELSE burstSent
          /\ UNCHANGED suggestions
  /\ lastEvent' = NoEvent
  /\ UNCHANGED <<query, selectedItem, timeoutId, burstLen, dismissed,
                 serverVars>>

\* fetchSuggestions without the return of its short-input branch: the list
\* is cleared and the request is sent all the same
TimerFiresNoReturn(t) ==
  /\ t \in timers
  /\ t.elapsed >= Delay
  /\ timers' = timers \ {t}
  /\ Len(inFlight) < MaxInFlight
  /\ IF InputTooShort(t.q)
     THEN suggestions' = <<>>
     ELSE UNCHANGED suggestions
  /\ isLoading' = TRUE
  /\ inFlight' = Append(inFlight, EncodeURIComponent(t.q))
  /\ burstSent' = IF Len(burstSent) < 2
                  THEN Append(burstSent, EncodeURIComponent(t.q))
                  ELSE burstSent
  /\ lastEvent' = NoEvent
  /\ UNCHANGED <<query, showSuggestions, selectedItem, timeoutId, burstLen,
                 dismissed, serverVars>>

\* a due timer runs fetchSuggestions up to its await
TimerFires(t) ==
  /\ t \in timers
  /\ t.elapsed >= Delay
  /\ timers' = timers \ {t}
  /\ IF InputTooShort(t.q)
     THEN /\ suggestions' = <<>>
          /\ UNCHANGED <<isLoading, netVars, burstSent>>
     ELSE /\ Len(inFlight) < MaxInFlight
          /\ isLoading' = TRUE
          /\ inFlight' = Append(inFlight, EncodeURIComponent(t.q))
          /\ burstSent' = IF Len(burstSent) < 2
                          THEN Append(burstSent, EncodeURIComponent(t.q))
                          ELSE burstSent
          /\ UNCHANGED suggestions
  /\ lastEvent' = NoEvent
  /\ UNCHANGED <<query, showSuggestions, selectedItem, timeoutId, burstLen,
                 dismissed, serverVars>>

\* what GET /api/search answers with status 200 to the request for url
OkPayloads(url) ==
  LET req == Q(DecodeQueryParam(url))
  IN  IF TooShort(req) THEN {<<>>} ELSE SearchResults(items, req.q)

\* ResponseOk with a guard against stale responses: the payload is applied
\* only when the request was made for the current text
ResponseOkIfCurrent(i, data) ==
  /\ i \in 1..Len(inFlight)
  /\ inFlight' = RemoveAt(inFlight, i)
  /\ IF DecodeQueryParam(inFlight[i]) = query
     THEN suggestions' = data /\ showSuggestions' = TRUE
     ELSE UNCHANGED <<suggestions, showSuggestions>>
  /\ isLoading' = FALSE
  /\ lastEvent' = Event("ok", inFlight[i], data)
  /\ UNCHANGED <<query, selectedItem, timerVars, burstVars, dismissed,
                 serverVars>>

\* the fetch at position i resolves with response.ok: the payload is applied
ResponseOk(i, data) ==
  /\ i \in 1..Len(inFlight)
  /\ inFlight' = RemoveAt(inFlight, i)
  /\ suggestions' = data
  /\ showSuggestions' = TRUE
  /\ isLoading' = FALSE
  /\ lastEvent' = Event("ok", inFlight[i], data)
  /\ UNCHANGED <<query, selectedItem, timerVars, burstVars, dismissed,
                 serverVars>>

\* the non-OK branch clearing the list
ResponseNotOkClearsList(i) ==
  /\ i \in 1..Len(inFlight)
  /\ inFlight' = RemoveAt(inFlight, i)
  /\ suggestions' = <<>>
  /\ isLoading' = FALSE
  /\ lastEvent' = Event("notok", inFlight[i], <<>>)
  /\ UNCHANGED <<query, showSuggestions, selectedItem, timerVars, burstVars,
                 dismissed, serverVars>>

\* the fetch at position i resolves with a status outside 200..299 (the
\* server's 500)
ResponseNotOk(i) ==
  /\ i \in 1..Len(inFlight)
  /\ inFlight' = RemoveAt(inFlight, i)
  /\ isLoading' = FALSE
  /\ lastEvent' = Event("notok", inFlight[i], <<>>)
  /\ UNCHANGED <<query, suggestions, showSuggestions, selectedItem,
                 timerVars, burstVars, dismissed, serverVars>>

\* the rejection handled by a catch without the finally block: the flag
\* is left as it is
NetworkErrorKeepsLoading(i) ==
  /\ i \in 1..Len(inFlight)
  /\ inFlight' = RemoveAt(inFlight, i)
  /\ lastEvent' = Event("error", inFlight[i], <<>>)
  /\ UNCHANGED <<query, suggestions, isLoading, showSuggestions,
                 selectedItem, timerVars, burstVars, dismissed, serverVars>>

\* the fetch at position i rejects: catch logs, finally clears the flag
NetworkError(i) ==
  /\ i \in 1..Len(inFlight)
  /\ inFlight' = RemoveAt(inFlight, i)
  /\ isLoading' = FALSE
  /\ lastEvent' = Event("error", inFlight[i], <<>>)
  /\ UNCHANGED <<query, suggestions, showSuggestions, selectedItem,
                 timerVars, burstVars, dismissed, serverVars>>

\* the component after its first render: the effect has run once for ''
InitClient ==
  /\ query = <<>>
  /\ suggestions = <<>>
  /\ isLoading = FALSE
  /\ showSuggestions = FALSE
  /\ selectedItem = NoItem
  /\ timers = {[id |-> 1, q |-> <<>>, elapsed |-> 0]}
  /\ timeoutId = 1
  /\ inFlight = <<>>
  /\ burstLen = 0
  /\ burstSent = <<>>
  /\ lastEvent = NoEvent
  /\ dismissed = FALSE

-----------------------------------------------------------------------------
(* Specifications *)

InitStore == \E existing \in ExistingTables : items = StartServer(existing)

\* dotenv.config(): the environment the server is started with
InitEnv == envEmail \in EnvEmails /\ envKey \in EnvKeys

\* an environment with both credentials
InitEnvSet == envEmail = SetTo(<<"s","@","x">>) /\ envKey = SetTo(<<"k","\\","n","k">>)

\* the search endpoint alone, over every table
SearchInit == InitStore /\ InitSearch /\ InitEnvSet /\ InitProxy /\ InitClient

SearchNext ==
  \/ \E req \in SearchRequests, storeFault \in {NoFault} \cup StoreFaults :
        SearchHandler(req, storeFault)
  \/ SearchDone

SearchSpec == SearchInit /\ [][SearchNext]_vars

\* the proxy endpoint alone, over every environment
ProxyInit ==
  items = SeededItems /\ InitSearch /\ InitEnv /\ InitProxy /\ InitClient

ProxyNext ==
  \/ \E id \in SpreadsheetIds, range \in Ranges : ProxyHandler(id, range)
  \/ \E data \in UpstreamPayloads : UpstreamResolves(data)
  \/ \E code \in ErrorCodes, message \in ErrorMessages :
        UpstreamRejects(Error(code, message))
  \/ ProxyDone

ProxySpec == ProxyInit /\ [][ProxyNext]_vars

\* the client alone, against a server whose table is SmallTable
ClientInit ==
  items = SmallTable /\ InitSearch /\ InitEnvSet /\ InitProxy /\ InitClient

ClientNext ==
  \/ \E v \in TypedTexts : Change(v)
  \/ Focus
  \/ ClickOutside
  \/ \E i \in 1..Len(suggestions) : SelectSuggestion(suggestions[i])
  \/ Tick
  \/ \E t \in timers : TimerFires(t)
  \/ \E i \in 1..Len(inFlight) :
        \E data \in OkPayloads(inFlight[i]) : ResponseOk(i, data)
  \/ \E i \in 1..Len(inFlight) : ResponseNotOk(i)
  \/ \E i \in 1..Len(inFlight) : NetworkError(i)

ClientSpec == ClientInit /\ [][ClientNext]_vars

-----------------------------------------------------------------------------
(* Properties of GET /api/search *)

Range(seq) == {seq[i] : i \in 1..Len(seq)}

\* row holds text t in its name or its description, compared exactly
RowContains(row, t) ==
  Contains(row.name, t) \/ (~row.descIsNull /\ Contains(row.description, t))

\* row holds text t in its name or its description, ignoring ASCII case
RowContainsNoCase(row, t) ==
  \/ ContainsNoCase(row.name, t)
  \/ (~row.descIsNull /\ ContainsNoCase(row.description, t))

\* a query was run and answered with a list
Answered == sPc = "responded" /\ sStatus = 200 /\ ~TooShort(sReq)

\* C1: a request whose q is absent or has trimmed length below 2 is
\* answered 200 with the empty list and runs no statement against the store.
C1_ShortTrimmedQuerySkipsStore ==
  (sPc = "responded" /\ (~sReq.hasQ \/ Len(Trim(sReq.q)) < MinQueryLen))
    => (sStatus = 200 /\ sBody = RowsBody(<<>>) /\ sStoreCalls = 0)

C3_ResultBounded ==
  (sPc = "responded" /\ sBody.kind = "rows")
    => /\ Len(sBody.rows) <= 5
       /\ \A i, j \in 1..Len(sBody.rows) :
            i # j => sBody.rows[i] # sBody.rows[j]
       /\ Range(sBody.rows) \subseteq Range(items)

C3_Witness ==
  /\ Answered
  /\ Cardinality(MatchingRows(items, sReq.q)) > 5
  /\ Len(sBody.rows) = 5

\* C4: the query text is matched as a literal substring: the returned rows
\* are, up to the cap of 5, exactly the rows holding that text in name or
\* description.
C4_QueryTextIsLiteral ==
  Answered
    => LET lit == {i \in 1..Len(items) : RowContainsNoCase(items[i], sReq.q)}
       IN  /\ Range(sBody.rows) \subseteq {items[i] : i \in lit}
           /\ Len(sBody.rows) = Min(5, Cardinality(lit))

-----------------------------------------------------------------------------
(* Properties of GET /api/sheets *)

\* an environment variable that is unset or empty
Missing(v) == ~v.set \/ Len(v.text) = 0

\* C5: when the principal identifier or the private key is missing from the
\* environment the request is answered 500 with the configuration-error
\* body {error, details} and no upstream call is made; when both are
\* present the upstream call is made.
C5_CredentialCheck ==
  pPc # "idle"
    => IF Missing(envEmail) \/ Missing(envKey)
       THEN /\ pPc = "responded"
            /\ pStatus = 500
            /\ pBody = ConfigErrorBody
            /\ pBody.error # "" /\ pBody.details # ""
            /\ pCalls = 0
       ELSE pCalls = 1

C5_Witness ==
  /\ pPc = "responded"
  /\ ~Missing(envEmail) /\ Missing(envKey)
  /\ pStatus = 500
  /\ pCalls = 0

\* C6: after an upstream failure the response status is the upstream status
\* code when the error carries one and 500 when it carries none, and the
\* body is {error: "Failed to fetch data from Google Sheets.", message}.
C6_UpstreamFailureMapped ==
  pError.thrown
    => /\ pPc = "responded"
       /\ pStatus = (IF pError.code.type = "int" /\ pError.code.num >= 100
                         /\ pError.code.num <= 599
                      THEN pError.code.num ELSE 500)
       /\ pBody = UpstreamErrorBody(pError.message)

\* C7: in both endpoints every fault is caught in the handler and answered
\* with a JSON object holding an error field; no handler ends without a
\* response.
C7_EveryFaultAnswered ==
  /\ sPc = "responded" => (sStatus # 0 /\ sBody.kind # "none")
  /\ (sPc = "responded" /\ sStatus # 200)
       => (sBody.kind = "error" /\ sBody.error # "")
  /\ pPc # "threw"
  /\ pError.thrown
       => (pStatus # 0 /\ pBody.kind = "error" /\ pBody.error # "")

-----------------------------------------------------------------------------
(* Properties of the search box *)

\* the timer scheduled by the last run of the [query] effect is pending
TimerPending == \E t \in timers : t.id = timeoutId

\* C8 as stated: after three input changes, each less than Delay after the
\* one before, no request is issued while the timer is pending and exactly
\* one, carrying the final text, once it has fired.
C8_BurstSendsExactlyOne ==
  burstLen = 3
    => IF TimerPending
       THEN burstSent = <<>>
       ELSE /\ Len(burstSent) = 1
            /\ DecodeQueryParam(burstSent[1]) = query

\* C8 amended: after three input changes, each less than Delay after the
\* one before, no request is issued for the first two texts; once the
\* timer has fired exactly one request, carrying the final text, has been
\* issued if the trimmed final text has at least 2 characters, and none
\* otherwise.
C8_BurstSendsOneUnlessShort ==
  burstLen = 3
    => IF TimerPending
       THEN burstSent = <<>>
       ELSE IF Len(Trim(query)) < 2
            THEN burstSent = <<>>
            ELSE /\ Len(burstSent) = 1
                 /\ DecodeQueryParam(burstSent[1]) = query

C8_Witness ==
  /\ burstLen = 3
  /\ ~TimerPending
  /\ Len(burstSent) = 1
  /\ DecodeQueryParam(burstSent[1]) = query

\* C9: a selection sets the input text to the chosen row's name and hides
\* the dropdown, and from the selection on, with no input change in
\* between, no request to /api/search is issued.
C9_SelectionIsTerminal ==
  /\ [][selectedItem' # selectedItem
          => (query' = selectedItem'.item.name /\ ~showSuggestions')]_vars
  /\ []((selectedItem.set /\ burstLen = 0) => burstSent = <<>>)

\* C10: when the debounced handler runs for a text of trimmed length below
\* 2 it sets suggestions to the empty list, issues no request and leaves
\* the loading flag as it was.
C10_ShortInputClearsLocally ==
  [][\A t \in timers :
        ( /\ \A u \in timers' : u.id # t.id
          /\ query' = query
          /\ Len(Trim(t.q)) < 2 )
        => ( /\ suggestions' = <<>>
             /\ inFlight' = inFlight
             /\ isLoading' = isLoading )]_vars

C10_Witness ==
  /\ timers = {}
  /\ Len(query) >= 2 /\ Len(Trim(query)) < 2
  /\ suggestions = <<>>
  /\ isLoading

\* C11: the loading flag is true in every state in which at least one
\* suggestion request is in flight, also when requests overlap and complete
\* in any order.
C11_LoadingWhileInFlight == Len(inFlight) > 0 => isLoading

\* C12: an OK response is applied when it arrives, whatever the input is by
\* then and in whatever order overlapping requests complete: suggestions is
\* its payload and the dropdown is visible.
C12_OkResponseApplied ==
  lastEvent.kind = "ok"
    => (suggestions = lastEvent.data /\ showSuggestions)

\* the request for the current text was sent and answered, and the response
\* to an earlier request for another text arrived last and is displayed
C12_Witness ==
  /\ lastEvent.kind = "ok"
  /\ timers = {} /\ inFlight = <<>>
  /\ Len(Trim(query)) >= 2
  /\ DecodeQueryParam(lastEvent.url) # query
  /\ suggestions = lastEvent.data /\ suggestions # <<>>
  /\ showSuggestions


\* C13: every search request ends in exactly one response: 200 with a JSON
\* list when the store does not fault (short input or completed query), 500
\* with the fixed body {error: "Internal server error"} when it faults; the
\* 500 body carries no detail of the fault, which is only logged.
C13_OneResponsePerSearch ==
  /\ sPc = "idle" => sSent = 0
  /\ sPc = "responded" =>
       /\ sSent = 1
       /\ IF sLog = NoFault
          THEN sStatus = 200 /\ sBody.kind = "rows"
          ELSE /\ sStatus = 500
               /\ sBody = ErrorBody("Internal server error")
               /\ sBody.error # sLog
               /\ sBody.error \notin StoreFaults

\* a request whose statement faulted has been answered
C13_Witness ==
  /\ sPc = "responded" /\ sStoreCalls = 1
  /\ sLog \in StoreFaults
  /\ sStatus = 500


\* C14: a proxy request with both credentials present makes exactly one
\* upstream read call, only after the configuration check has passed and
\* without a retry after a failure, and ends in one response: 200 with the
\* upstream payload unmodified on success, the upstream-derived error
\* response on failure.
C14_OneCallOneResponse ==
  /\ pCalls <= 1
  /\ pCalls = 1 => (~Missing(envEmail) /\ ~Missing(envKey))
  /\ (pPc # "idle" /\ ~Missing(envEmail) /\ ~Missing(envKey))
       => /\ pCalls = 1
          /\ pPc \in {"awaiting", "responded"}
          /\ pPc = "responded"
               => IF pError.thrown
                  THEN /\ pStatus # 0
                       /\ pBody = UpstreamErrorBody(pError.message)
                  ELSE /\ pStatus = 200
                       /\ pBody.kind = "data"


\* C15: at most one debounce timer is pending, and it is the one scheduled
\* for the current text; a fetch runs (a request is sent, or the list is
\* cleared for a short text) only from the timer of the current text, after
\* the text has stayed unchanged for the full quiet period, so the fetch of
\* a cancelled timer never runs.
C15_OnePendingTimer ==
  /\ [](/\ Cardinality(timers) <= 1
        /\ \A t \in timers : t.id = timeoutId /\ t.q = query)
  /\ [][(timers' # timers /\ query' = query /\ timers' \subseteq timers)
          => \E t \in timers :
               /\ timers' = timers \ {t}
               /\ t.id = timeoutId /\ t.q = query /\ t.elapsed >= Delay
               /\ IF InputTooShort(query)
                  THEN inFlight' = inFlight
                  ELSE inFlight' = Append(inFlight, EncodeURIComponent(query))]_vars
  /\ [][Len(inFlight') > Len(inFlight)
          => \E t \in timers : timers' = timers \ {t} /\ t.elapsed >= Delay
                                /\ t.q = query]_vars

\* a change cancelled a timer that was not yet due, and the timer scheduled
\* in its place has run and sent the one request
C15_Witness ==
  /\ burstLen >= 2
  /\ timers = {}
  /\ Len(burstSent) = 1
  /\ burstSent[1] = EncodeURIComponent(query)


\* C16 as stated: once the list has been hidden by a click outside the
\* search region or by choosing a suggestion, showSuggestions stays false
\* until the user next focuses the input or changes its text.
C16_HiddenUntilUserActs == dismissed => ~showSuggestions

\* C16: once the list has been hidden by a click outside the search region
\* or by choosing a suggestion, and until the user next focuses the input
\* or changes its text, showSuggestions becomes true only by the arrival of
\* an OK response; no timer firing, non-OK response or network error
\* re-opens the list.
C16_HiddenUntilFocusOrOkResponse ==
  [][(dismissed /\ dismissed' /\ ~showSuggestions /\ showSuggestions')
       => (lastEvent'.kind = "ok" /\ suggestions' = lastEvent'.data)]_vars

\* the list was hidden by a click outside, the user did nothing since, and
\* the response to the request in flight has re-opened it
C16_Witness ==
  /\ dismissed /\ ~selectedItem.set
  /\ lastEvent.kind = "ok"
  /\ showSuggestions /\ suggestions # <<>>


\* C17 as stated: once the debounced handler has run for a text of trimmed
\* length below 2 (its timer is gone and the text is unchanged since), the
\* suggestion list is empty, also after the response to a request sent for
\* an earlier, longer text has arrived.
C17_ShortInputListStaysEmpty ==
  (timers = {} /\ InputTooShort(query)) => suggestions = <<>>

\* C17: once the debounced handler has run for a text of trimmed length
\* below 2 and cleared the list, and while the text stays unchanged, the
\* list stays empty unless an OK response to a request sent for an earlier,
\* longer text arrives, whose payload then becomes the list; a non-OK
\* response or a network error leaves it empty.
C17_ShortInputListEmptyUntilOkResponse ==
  [][(timers = {} /\ InputTooShort(query) /\ suggestions = <<>>
        /\ query' = query)
       => \/ suggestions' = <<>>
          \/ /\ lastEvent'.kind = "ok"
             /\ suggestions' = lastEvent'.data
             /\ ~InputTooShort(DecodeQueryParam(lastEvent'.url))
             /\ DecodeQueryParam(lastEvent'.url) # query]_vars

\* the handler has run for the short text and cleared the list, and the
\* response to the request for the earlier text arrived afterwards
C17_Witness ==
  /\ timers = {} /\ InputTooShort(query)
  /\ lastEvent.kind = "ok"
  /\ suggestions = lastEvent.data /\ suggestions # <<>>


\* C18: the settling of a suggestion request, by an OK response, a non-OK
\* response or a network error, leaves isLoading false; hence isLoading is
\* false whenever no request is in flight, in particular in every state
\* with no timer pending and no request in flight.
C18_SettledRequestClearsLoading ==
  /\ lastEvent.kind \in {"ok", "notok", "error"} => ~isLoading
  /\ inFlight = <<>> => ~isLoading
  /\ (timers = {} /\ inFlight = <<>>) => ~isLoading

\* a request ended in a network error and nothing is pending any more
C18_Witness ==
  /\ lastEvent.kind = "error"
  /\ timers = {} /\ inFlight = <<>>
  /\ ~isLoading

\* C19: the settling of a suggestion request by a non-OK response or a
\* network error leaves suggestions, showSuggestions, query and
\* selectedItem unchanged; of the component's state only isLoading changes.
C19_FailureLeavesListAlone ==
  [][lastEvent'.kind \in {"notok", "error"}
       => /\ UNCHANGED <<query, suggestions, showSuggestions, selectedItem>>
          /\ ~isLoading']_vars

\* a request ended in a non-OK response while a list from an earlier
\* response is displayed
C19_Witness ==
  /\ lastEvent.kind = "notok"
  /\ suggestions # <<>> /\ showSuggestions
  /\ ~isLoading

=============================================================================
